---- MODULE Spec2Model ----
(***************************************************************************)
(* Model of tutorial/zh/beginner_source/former_torchies/                   *)
(* parallelism_tutorial.py: the function data_parallel and the two         *)
(* modules DataParallelModel and DistributedModel.                         *)
(*                                                                         *)
(* A tensor is a batch: a sequence of rows (its first dimension) together  *)
(* with the device that holds it.  A row is abstracted to one number and   *)
(* a layer to an affine map on it, so that the order in which layers are   *)
(* applied and the order in which rows are merged are visible in the value.*)
(* Devices are numbered as the framework numbers them: GPUs 0, 1, ...,     *)
(* and -1 for the CPU.                                                     *)
(***************************************************************************)
EXTENDS Integers, Sequences, FiniteSets

\* ------------------------------------------------------------------ bounds
MaxGpus == 2
MaxBatch == 3
Modulus == 5

CPU == -1
None == -2

RowVals == {0, 1}
Weights == {1, 2}
Biases == {1}

VARIABLES
    gpuCount,       \* number of GPUs the framework sees (0 = CPU mode)
    pc,             \* position of the one Python thread
    caller,         \* who called data_parallel: "top" or "forward"
    module,         \* data_parallel: argument module
    input,          \* data_parallel: argument input
    device_ids,     \* data_parallel: argument device_ids (a Python list)
    argIds,         \* device_ids as the caller passed it
    argOut,         \* output_device as the caller passed it
    output_device,  \* data_parallel: argument / local output_device
    replicas,       \* data_parallel: local replicas
    inputs,         \* data_parallel: local inputs
    outputs,        \* data_parallel: local outputs, filled by parallel_apply
    finished,       \* parallel_apply: replica indices in the order they finished
    result,         \* value data_parallel returns
    calls,          \* log of the calls of the nn.parallel primitives
    directCalls,    \* how often the argument module itself was invoked
    ip,             \* index of the next statement of data_parallel's body
    blocks,         \* DataParallelModel: block1, block2, block3
    layers,         \* DistributedModel: embedding, rnn
    x,              \* forward: local x
    arg,            \* forward: the tensor the caller passed
    fp,             \* forward: index of the next statement
    applied,        \* forward: log of the statements executed
    out             \* value forward returns

dpVars == <<caller, module, input, device_ids, argIds, argOut, output_device,
            replicas, inputs, outputs, finished, result, calls, directCalls, ip>>
modelVars == <<blocks, layers, x, arg, fp, applied, out>>
vars == <<gpuCount, pc, dpVars, modelVars>>

\* ------------------------------------------------------------------ values
Gpus(n) == 0 .. (n - 1)

NoTensor == [rows |-> <<>>, dev |-> None]
NoLayer == [w |-> 0, b |-> 0, norm |-> FALSE, dev |-> None, wrapped |-> FALSE, ids |-> <<>>]

RECURSIVE SumRows(_)
SumRows(rows) == IF rows = <<>> THEN 0 ELSE Head(rows) + SumRows(Tail(rows))

\* module(input) on the rows of a batch.  A layer with norm = FALSE treats
\* every row on its own; one with norm = TRUE mixes the whole batch into
\* every row, as a batch normalisation does.
Forward(m, rows) ==
    [i \in 1 .. Len(rows) |->
        (m.w * rows[i] + m.b + (IF m.norm THEN SumRows(rows) ELSE 0)) % Modulus]

RowIndependent(m) == ~m.norm

\* module(input): the result stays where the input is.
DirectCall(m, t) == [rows |-> Forward(m, t.rows), dev |-> t.dev]

\* m.cuda(d) / x.cuda(d): the layer or tensor on GPU d
Cuda(v, d) == [v EXCEPT !.dev = d]

\* ------------------------------------------------------ nn.parallel primitives
\* replicate: one copy of the module per listed device, in the list's order.
Replicate(m, ids) == [i \in 1 .. Len(ids) |-> [module |-> m, dev |-> ids[i], id |-> i]]

RECURSIVE SumTo(_, _)
SumTo(sizes, j) == IF j = 0 THEN 0 ELSE sizes[j] + SumTo(sizes, j - 1)

\* The ways of cutting n rows into k non-empty consecutive pieces.
Cuts(n, k) == {sizes \in [1 .. k -> 1 .. n] : SumTo(sizes, k) = n}

\* scatter: the batch cut along its first dimension, in order, into at most
\* one shard per device; shard i is placed on ids[i].
Scatter(t, ids) ==
    LET n == Len(t.rows)
        maxK == IF Len(ids) < n THEN Len(ids) ELSE n
    IN  UNION {
          {[i \in 1 .. k |->
              [rows |-> SubSeq(t.rows, SumTo(sizes, i - 1) + 1, SumTo(sizes, i)),
               dev |-> ids[i]]] : sizes \in Cuts(n, k)} : k \in 1 .. maxK}

RECURSIVE ConcatRows(_)
ConcatRows(ts) == IF ts = <<>> THEN <<>> ELSE Head(ts).rows \o ConcatRows(Tail(ts))

\* gather: the outputs concatenated along the first dimension, in order, on dev.
Gather(outs, dev) == [rows |-> ConcatRows(outs), dev |-> dev]

\* what one replica computes on its shard
ReplicaOutput(r, shard) == [rows |-> Forward(r.module, shard.rows), dev |-> r.dev]

\* one entry of the call log: the primitive, the device list or device it was
\* given, how many modules and how many tensors it was given, what it returned
Call(op, ids, dev, nmod, nin, ret) ==
    [op |-> op, ids |-> ids, dev |-> dev, nmod |-> nmod, nin |-> nin, ret |-> ret]

\* ------------------------------------------------------------ data_parallel
\* line 57: if not device_ids
EmptyDevicesNever(ids) == FALSE
EmptyDevices(ids) == ids = <<>>

\* line 58: return module(input)
EarlyReturnMoved(m, t, od) == IF od = None THEN DirectCall(m, t) ELSE Cuda(DirectCall(m, t), od)
EarlyReturn(m, t, od) == DirectCall(m, t)

\* lines 60-61: if output_device is None: output_device = device_ids[0]
DefaultsToFirstFalsy(od) == od = None \/ od = 0
DefaultsToFirst(od) == od = None
OutputDevice(od, ids) == IF DefaultsToFirst(od) THEN ids[1] ELSE od

\* line 65: replicas[:len(inputs)]
SliceReplicasLast(reps, ins) ==
    SubSeq(reps, (IF Len(ins) < Len(reps) THEN Len(reps) - Len(ins) ELSE 0) + 1, Len(reps))
SliceReplicas(reps, ins) ==
    SubSeq(reps, 1, IF Len(ins) < Len(reps) THEN Len(ins) ELSE Len(reps))

\* lines 63-67: the statements of the body, in order
BodyGatherEarly == <<"replicate", "scatter", "slice", "gather", "parallel_apply">>
Body == <<"replicate", "scatter", "slice", "parallel_apply", "gather">>

Stmt == IF pc = "dp_body" /\ ip \in 1 .. Len(Body) THEN Body[ip] ELSE "none"

\* the device lists handed to replicate (line 63) and scatter (line 64)
ReplicateDevices(ids) == ids
ScatterDevicesRest(ids) == Tail(ids)
ScatterDevices(ids) == ids

\* line 67: the tensors handed to gather are the outputs
GatherOperandInputs(outs, ins) == ins
GatherOperand(outs, ins) == outs

DpFrame(c, m, t, ids, od) ==
    /\ caller' = c
    /\ module' = m
    /\ input' = t
    /\ device_ids' = ids
    /\ argIds' = ids
    /\ argOut' = od
    /\ output_device' = od
    /\ replicas' = <<>>
    /\ inputs' = <<>>
    /\ outputs' = <<>>
    /\ finished' = <<>>
    /\ result' = NoTensor
    /\ calls' = <<>>
    /\ directCalls' = 0
    /\ ip' = 0

Batches == UNION {[1 .. n -> RowVals] : n \in 1 .. MaxBatch}
\* the tensors a caller passes: on the CPU or, when there is one, on GPU 0
Tensors(n) == {[rows |-> r, dev |-> d] : r \in Batches, d \in {CPU} \cup (Gpus(n) \cap {0})}
\* the modules a caller passes: row-wise layers, and one that mixes the batch
Layers == {[w |-> w, b |-> b, norm |-> nm, dev |-> CPU, wrapped |-> FALSE, ids |-> <<>>] :
             w \in Weights, b \in Biases, nm \in BOOLEAN} \
          {l \in [w : Weights, b : Biases, norm : {TRUE}, dev : {CPU}, wrapped : {FALSE},
                  ids : {<<>>}] : l.w # 1}
Injective(s) == \A i, j \in 1 .. Len(s) : s[i] = s[j] => i = j
\* the device lists a caller passes: GPUs the framework sees, none twice
DeviceLists(n) ==
    {s \in UNION {[1 .. k -> Gpus(n)] : k \in 0 .. n} : Injective(s)}

\* a caller invokes data_parallel(module, input, device_ids, output_device)
CallDataParallel ==
    /\ pc = "idle"
    /\ \E m \in Layers, t \in Tensors(gpuCount), ids \in DeviceLists(gpuCount),
          od \in {None, CPU} \cup Gpus(gpuCount) :
            DpFrame("top", m, t, ids, od)
    /\ pc' = "dp_entry"
    /\ UNCHANGED <<gpuCount, modelVars>>

\* lines 57-58
DpEntry ==
    /\ pc = "dp_entry"
    /\ IF EmptyDevices(device_ids)
       THEN /\ result' = EarlyReturn(module, input, output_device)
            /\ directCalls' = directCalls + 1
            /\ pc' = "dp_return"
       ELSE /\ pc' = "dp_outdev"
            /\ UNCHANGED <<result, directCalls>>
    /\ UNCHANGED <<gpuCount, caller, module, input, device_ids, argIds, argOut,
                   output_device, replicas, inputs, outputs, finished, calls, ip,
                   modelVars>>

\* lines 60-61; device_ids[0] of an empty list raises IndexError
DpOutputDevice ==
    /\ pc = "dp_outdev"
    /\ IF DefaultsToFirst(output_device) /\ device_ids = <<>>
       THEN /\ pc' = "error"
            /\ UNCHANGED <<output_device, ip>>
       ELSE /\ output_device' = OutputDevice(output_device, device_ids)
            /\ ip' = 1
            /\ pc' = "dp_body"
    /\ UNCHANGED <<gpuCount, caller, module, input, device_ids, argIds, argOut,
                   replicas, inputs, outputs, finished, result, calls, directCalls,
                   modelVars>>

\* line 63
DpReplicate ==
    /\ Stmt = "replicate"
    /\ replicas' = Replicate(module, ReplicateDevices(device_ids))
    /\ calls' = Append(calls, Call("replicate", ReplicateDevices(device_ids), None, 1, 0, NoTensor))
    /\ ip' = ip + 1
    /\ UNCHANGED <<gpuCount, pc, caller, module, input, device_ids, argIds, argOut,
                   output_device, inputs, outputs, finished, result, directCalls,
                   modelVars>>

\* line 64; scatter cannot place a batch on no device
DpScatter ==
    /\ Stmt = "scatter"
    /\ calls' = Append(calls, Call("scatter", ScatterDevices(device_ids), None, 0, 1, NoTensor))
    /\ IF Scatter(input, ScatterDevices(device_ids)) = {}
       THEN /\ pc' = "error"
            /\ UNCHANGED <<inputs, ip>>
       ELSE /\ \E shards \in Scatter(input, ScatterDevices(device_ids)) : inputs' = shards
            /\ ip' = ip + 1
            /\ pc' = pc
    /\ UNCHANGED <<gpuCount, caller, module, input, device_ids, argIds, argOut,
                   output_device, replicas, outputs, finished, result, directCalls,
                   modelVars>>

\* line 65
DpSlice ==
    /\ Stmt = "slice"
    /\ replicas' = SliceReplicas(replicas, inputs)
    /\ ip' = ip + 1
    /\ UNCHANGED <<gpuCount, pc, caller, module, input, device_ids, argIds, argOut,
                   output_device, inputs, outputs, finished, result, calls,
                   directCalls, modelVars>>

\* line 66: parallel_apply is entered; it takes one input per module
DpParallelApply ==
    /\ Stmt = "parallel_apply"
    /\ calls' = Append(calls, Call("parallel_apply", <<>>, None, Len(replicas), Len(inputs), NoTensor))
    /\ IF Len(replicas) = Len(inputs)
       THEN /\ outputs' = [i \in 1 .. Len(inputs) |-> NoTensor]
            /\ finished' = <<>>
            /\ pc' = "dp_running"
       ELSE /\ pc' = "error"
            /\ UNCHANGED <<outputs, finished>>
    /\ UNCHANGED <<gpuCount, caller, module, input, device_ids, argIds, argOut,
                   output_device, replicas, inputs, result, directCalls, ip,
                   modelVars>>

Unfinished == {i \in 1 .. Len(replicas) : \A j \in 1 .. Len(finished) : finished[j] # i}

\* inside parallel_apply: replica i, run on shard i, finishes
ReplicaFinish ==
    /\ pc = "dp_running"
    /\ \E i \in Unfinished :
         /\ outputs' = [outputs EXCEPT ![i] = ReplicaOutput(replicas[i], inputs[i])]
         /\ finished' = Append(finished, i)
    /\ UNCHANGED <<gpuCount, pc, caller, module, input, device_ids, argIds, argOut,
                   output_device, replicas, inputs, result, calls, directCalls, ip,
                   modelVars>>

\* line 66: parallel_apply returns once every replica has finished
DpApplyReturn ==
    /\ pc = "dp_running"
    /\ Unfinished = {}
    /\ pc' = "dp_body"
    /\ ip' = ip + 1
    /\ UNCHANGED <<gpuCount, caller, module, input, device_ids, argIds, argOut,
                   output_device, replicas, inputs, outputs, finished, result, calls,
                   directCalls, modelVars>>

\* line 67
DpGather ==
    /\ Stmt = "gather"
    /\ calls' = Append(calls, Call("gather", <<>>, output_device, 0,
                                   Len(GatherOperand(outputs, inputs)),
                                   Gather(GatherOperand(outputs, inputs), output_device)))
    /\ result' = Gather(GatherOperand(outputs, inputs), output_device)
    /\ pc' = "dp_return"
    /\ UNCHANGED <<gpuCount, caller, module, input, device_ids, argIds, argOut,
                   output_device, replicas, inputs, outputs, finished, directCalls,
                   ip, modelVars>>

\* data_parallel hands its value back to the caller
DpReturnTop ==
    /\ pc = "dp_return"
    /\ caller = "top"
    /\ pc' = "done"
    /\ UNCHANGED <<gpuCount, dpVars, modelVars>>

\* ------------------------------------------------------------------ layers
\* nn.Linear / nn.Embedding: a fresh layer, created on the CPU, with
\* parameters w and b (the framework draws them at random).
Linear(w, b) ==
    [w |-> w, b |-> b, norm |-> FALSE, dev |-> CPU, wrapped |-> FALSE, ids |-> <<>>]
Embedding(w, b) ==
    [w |-> w, b |-> b, norm |-> FALSE, dev |-> CPU, wrapped |-> FALSE, ids |-> <<>>]

\* nn.DataParallel(m) with no device list: m wrapped, to be run on every GPU
\* the framework sees (none in CPU mode).
DataParallel(m, n) == [m EXCEPT !.wrapped = TRUE, !.ids = [i \in 1 .. n |-> i - 1]]

Applied(name, l, t) ==
    [layer |-> name, ldev |-> l.dev, xdev |-> t.dev, wrapped |-> l.wrapped]

\* -------------------------------------------------------- DataParallelModel
\* lines 21-29
DataParallelModelInit(w1, b1, w2, b2, w3, b3, n) ==
    [block1 |-> Linear(w1, b1),
     block2 |-> DataParallel(Linear(w2, b2), n),
     block3 |-> Linear(w3, b3)]

\* lines 32-34: the statements of forward, in order
ForwardOrderSwapped == <<"block1", "block3", "block2">>
ForwardOrder == <<"block1", "block2", "block3">>

NewDataParallelModel ==
    /\ pc = "idle"
    /\ \E w1, w2, w3 \in Weights, b1, b2, b3 \in Biases :
          blocks' = DataParallelModelInit(w1, b1, w2, b2, w3, b3, gpuCount)
    /\ pc' = "dpm_ready"
    /\ UNCHANGED <<gpuCount, dpVars, layers, x, arg, fp, applied, out>>

\* a caller invokes model(x)
DpmForward ==
    /\ pc = "dpm_ready"
    /\ \E t \in Tensors(gpuCount) : x' = t /\ arg' = t
    /\ fp' = 1
    /\ applied' = <<>>
    /\ pc' = "dpm_forward"
    /\ UNCHANGED <<gpuCount, dpVars, blocks, layers, out>>

\* lines 32, 34 (and 33 were block2 a plain layer): x = self.blockN(x)
DpmPlainBlock ==
    /\ pc = "dpm_forward"
    /\ fp \in 1 .. Len(ForwardOrder)
    /\ ~blocks[ForwardOrder[fp]].wrapped
    /\ x' = DirectCall(blocks[ForwardOrder[fp]], x)
    /\ applied' = Append(applied, Applied(ForwardOrder[fp], blocks[ForwardOrder[fp]], x))
    /\ fp' = fp + 1
    /\ UNCHANGED <<gpuCount, pc, dpVars, blocks, layers, arg, out>>

\* line 33: the wrapped block runs its inner layer through data_parallel on
\* the wrapper's devices
DpmWrappedBlock ==
    /\ pc = "dpm_forward"
    /\ fp \in 1 .. Len(ForwardOrder)
    /\ blocks[ForwardOrder[fp]].wrapped
    /\ DpFrame("forward", blocks[ForwardOrder[fp]], x, blocks[ForwardOrder[fp]].ids, None)
    /\ applied' = Append(applied, Applied(ForwardOrder[fp], blocks[ForwardOrder[fp]], x))
    /\ pc' = "dp_entry"
    /\ UNCHANGED <<gpuCount, blocks, layers, x, arg, fp, out>>

\* line 33: the wrapped block's value is assigned to x
DpReturnForward ==
    /\ pc = "dp_return"
    /\ caller = "forward"
    /\ x' = result
    /\ fp' = fp + 1
    /\ pc' = "dpm_forward"
    /\ UNCHANGED <<gpuCount, dpVars, blocks, layers, arg, applied, out>>

\* line 35
DpmReturn ==
    /\ pc = "dpm_forward"
    /\ fp = Len(ForwardOrder) + 1
    /\ out' = x
    /\ pc' = "done"
    /\ UNCHANGED <<gpuCount, dpVars, blocks, layers, x, arg, fp, applied>>

\* --------------------------------------------------------- DistributedModel
\* lines 80-81: the keyword arguments handed to the base constructor
DistributedModelInit(w1, b1, w2, b2) ==
    [embedding |-> Embedding(w1, b1), rnn |-> Cuda(Linear(w2, b2), 0)]

\* lines 78-82.  .cuda(0) needs GPU 0.  The base constructor nn.Module.__init__
\* is the framework's: whether it registers keyword arguments as sub-modules
\* or rejects them is not decided in this file, so both outcomes are kept.
NewDistributedModel ==
    /\ pc = "idle"
    /\ \E w1, w2 \in Weights, b1, b2 \in Biases, accepts \in BOOLEAN :
          IF gpuCount > 0 /\ accepts
          THEN /\ layers' = DistributedModelInit(w1, b1, w2, b2)
               /\ pc' = "dm_ready"
          ELSE /\ pc' = "error"
               /\ UNCHANGED layers
    /\ UNCHANGED <<gpuCount, dpVars, blocks, x, arg, fp, applied, out>>

\* a caller invokes model(x)
DmForward ==
    /\ pc = "dm_ready"
    /\ \E t \in Tensors(gpuCount) : x' = t /\ arg' = t
    /\ fp' = 1
    /\ applied' = <<>>
    /\ pc' = "dm_forward"
    /\ UNCHANGED <<gpuCount, dpVars, blocks, layers, out>>

\* lines 86-92: the statements of forward, in order
DistributedOrder == <<"embedding", "cuda", "rnn">>

DmStmt == IF pc = "dm_forward" /\ fp \in 1 .. Len(DistributedOrder)
          THEN DistributedOrder[fp] ELSE "none"

\* line 89: x = x.cuda(0)
TransferForgotten(t) == t
Transfer(t) == Cuda(t, 0)

\* lines 86 and 92: x = self.<layer>(x); the framework computes a layer only
\* on a tensor that is on the layer's device and raises otherwise
DmLayer ==
    /\ DmStmt \in {"embedding", "rnn"}
    /\ applied' = Append(applied, Applied(DmStmt, layers[DmStmt], x))
    /\ IF layers[DmStmt].dev = x.dev
       THEN /\ x' = DirectCall(layers[DmStmt], x)
            /\ fp' = fp + 1
            /\ pc' = pc
       ELSE /\ pc' = "error"
            /\ UNCHANGED <<x, fp>>
    /\ UNCHANGED <<gpuCount, dpVars, blocks, layers, arg, out>>

\* line 89
DmTransfer ==
    /\ DmStmt = "cuda"
    /\ x' = Transfer(x)
    /\ applied' = Append(applied, [layer |-> "cuda", ldev |-> Transfer(x).dev,
                                   xdev |-> x.dev, wrapped |-> FALSE])
    /\ fp' = fp + 1
    /\ UNCHANGED <<gpuCount, pc, dpVars, blocks, layers, arg, out>>

\* line 93
DmReturn ==
    /\ pc = "dm_forward"
    /\ fp = Len(DistributedOrder) + 1
    /\ out' = x
    /\ pc' = "done"
    /\ UNCHANGED <<gpuCount, dpVars, blocks, layers, x, arg, fp, applied>>

Reset ==
    /\ pc \in {"done", "error"}
    /\ pc' = "idle"
    /\ DpFrame("top", NoLayer, NoTensor, <<>>, None)
    /\ blocks' = [block1 |-> NoLayer, block2 |-> NoLayer, block3 |-> NoLayer]
    /\ layers' = [embedding |-> NoLayer, rnn |-> NoLayer]
    /\ x' = NoTensor
    /\ arg' = NoTensor
    /\ fp' = 0
    /\ applied' = <<>>
    /\ out' = NoTensor
    /\ UNCHANGED gpuCount

Init ==
    /\ gpuCount \in 0 .. MaxGpus
    /\ pc = "idle"
    /\ caller = "top"
    /\ module = NoLayer
    /\ input = NoTensor
    /\ device_ids = <<>>
    /\ argIds = <<>>
    /\ argOut = None
    /\ output_device = None
    /\ replicas = <<>>
    /\ inputs = <<>>
    /\ outputs = <<>>
    /\ finished = <<>>
    /\ result = NoTensor
    /\ calls = <<>>
    /\ directCalls = 0
    /\ ip = 0
    /\ blocks = [block1 |-> NoLayer, block2 |-> NoLayer, block3 |-> NoLayer]
    /\ layers = [embedding |-> NoLayer, rnn |-> NoLayer]
    /\ x = NoTensor
    /\ arg = NoTensor
    /\ fp = 0
    /\ applied = <<>>
    /\ out = NoTensor

Next ==
    \/ CallDataParallel
    \/ DpEntry
    \/ DpOutputDevice
    \/ DpReplicate
    \/ DpScatter
    \/ DpSlice
    \/ DpParallelApply
    \/ ReplicaFinish
    \/ DpApplyReturn
    \/ DpGather
    \/ DpReturnTop
    \/ NewDataParallelModel
    \/ DpmForward
    \/ DpmPlainBlock
    \/ DpmWrappedBlock
    \/ DpReturnForward
    \/ DpmReturn
    \/ NewDistributedModel
    \/ DmForward
    \/ DmLayer
    \/ DmTransfer
    \/ DmReturn
    \/ Reset

Spec == Init /\ [][Next]_vars
\* ------------------------------------------------------------------ claims
Ops == [i \in 1 .. Len(calls) |-> calls[i].op]
FourPrimitives == <<"replicate", "scatter", "parallel_apply", "gather">>
IsPrefix(a, b) == Len(a) <= Len(b) /\ SubSeq(b, 1, Len(a)) = a
CallsOf(op) == {i \in 1 .. Len(calls) : calls[i].op = op}
InBody == pc \in {"dp_outdev", "dp_body", "dp_running"}
Returned == pc = "dp_return"
DpmBuilt == blocks.block1.dev = CPU
DmBuilt == layers.embedding.dev = CPU
LayerNames == [i \in 1 .. Len(applied) |-> applied[i].layer]
Chain(t) ==
    Forward(blocks.block3, Forward(blocks.block2, Forward(blocks.block1, t.rows)))

\* C1: with an empty device_ids list, whatever the module, the input and
\* output_device, data_parallel never enters its body and returns the value of
\* one direct call module(input): same rows, still on the input's device (not
\* moved to output_device), and no primitive is invoked.
C1_EmptyListDirectCall ==
    argIds = <<>> =>
        /\ ~InBody
        /\ calls = <<>>
        /\ Returned =>
              /\ result.rows = Forward(module, input.rows)
              /\ result.dev = input.dev
              /\ directCalls = 1

C1_Witness ==
    /\ Returned
    /\ caller = "top"
    /\ argIds = <<>>
    /\ argOut \notin {None, input.dev}
    /\ result.dev = input.dev
    /\ Len(input.rows) > 1

\* C2: with a non-empty device_ids list the primitives are invoked once each
\* in the order replicate, scatter, parallel_apply, gather; gather is invoked
\* only once every replica has delivered its output; data_parallel returns
\* what gather returned, and it does return.
C2_FixedSequence ==
    argIds # <<>> =>
        /\ IsPrefix(Ops, FourPrimitives)
        /\ pc # "error"
        /\ \A i \in CallsOf("gather") :
              /\ Unfinished = {}
              /\ Len(finished) = Len(inputs)
              /\ calls[i].nin = Len(inputs)
              /\ \A j \in 1 .. Len(outputs) : outputs[j] # NoTensor
        /\ Returned =>
              /\ Ops = FourPrimitives
              /\ result = calls[Len(calls)].ret

C2_Witness ==
    /\ Returned
    /\ Len(argIds) > 1
    /\ Ops = FourPrimitives
    /\ Len(finished) > 1

\* C3 as stated: DistributedModel holds embedding on the CPU and rnn on GPU 0,
\* forward runs embedding, then the transfer to GPU 0, then rnn, and each layer
\* is only ever applied to a tensor on the layer's own device.
C3_AsStated ==
    DmBuilt =>
        /\ layers.embedding.dev = CPU
        /\ layers.rnn.dev = 0
        /\ IsPrefix(LayerNames, <<"embedding", "cuda", "rnn">>)
        /\ \A i \in 1 .. Len(applied) :
              applied[i].layer # "cuda" => applied[i].ldev = applied[i].xdev

\* C3, amended: placement and order as stated; rnn is only ever applied to a
\* tensor on GPU 0, its own device; embedding is applied to the tensor the
\* caller passed, where the caller put it, so every layer meets a tensor on
\* its own device exactly when the caller's tensor is on the CPU, and then
\* forward runs to its end.
C3_PartitionedForward ==
    DmBuilt =>
        /\ layers.embedding.dev = CPU
        /\ layers.rnn.dev = 0
        /\ IsPrefix(LayerNames, <<"embedding", "cuda", "rnn">>)
        /\ \A i \in 1 .. Len(applied) :
              /\ applied[i].layer = "rnn" => applied[i].ldev = 0 /\ applied[i].xdev = 0
              /\ applied[i].layer = "cuda" => applied[i].ldev = 0
              /\ applied[i].layer = "embedding" =>
                    applied[i].ldev = CPU /\ applied[i].xdev = arg.dev
        /\ arg.dev = CPU => pc # "error"
        /\ pc = "error" => arg.dev # CPU /\ LayerNames = <<"embedding">>
        /\ pc = "done" =>
              /\ LayerNames = <<"embedding", "cuda", "rnn">>
              /\ out.dev = 0
              /\ out.rows = Forward(layers.rnn, Forward(layers.embedding, arg.rows))

C3_Witness ==
    /\ pc = "done"
    /\ DmBuilt
    /\ arg.dev = CPU
    /\ Len(applied) = 3
    /\ applied[3].xdev = 0

C5_CpuMode ==
    (gpuCount = 0 /\ DpmBuilt) =>
        /\ pc # "error"
        /\ blocks.block2.ids = <<>>
        /\ calls = <<>>
        /\ ~InBody
        /\ pc = "done" =>
              /\ directCalls = 1
              /\ out.rows = Chain(arg)
              /\ out.dev = arg.dev

C5_Witness ==
    /\ gpuCount = 0
    /\ DpmBuilt
    /\ pc = "done"
    /\ directCalls = 1
    /\ Len(arg.rows) > 1

\* C6: for a module that treats rows independently and a non-empty
\* device_ids list, data_parallel returns the rows of module(input), in the
\* same order, whatever the cut scatter chose and whatever the order in which
\* the replicas finished.
C6_AgreesWithDirectCall ==
    (argIds # <<>> /\ RowIndependent(module)) =>
        /\ pc # "error"
        /\ Returned => result.rows = Forward(module, input.rows)

C6_Witness ==
    /\ Returned
    /\ caller = "top"
    /\ RowIndependent(module)
    /\ Len(finished) > 1
    /\ finished[1] > finished[2]
    /\ input.rows[1] # input.rows[Len(input.rows)]
    /\ result.rows = Forward(module, input.rows)

\* C7: the device handed to gather, and so the device of the result, is
\* device_ids[0] when the caller gave output_device None and the caller's
\* output_device otherwise, device 0 and devices outside device_ids included.
C7_GatherDevice ==
    argIds # <<>> =>
        /\ \A i \in CallsOf("gather") :
              calls[i].dev = (IF argOut = None THEN argIds[1] ELSE argOut)
        /\ Returned =>
              /\ CallsOf("gather") # {}
              /\ result.dev = (IF argOut = None THEN argIds[1] ELSE argOut)

C7_Witness ==
    /\ Returned
    /\ argIds = <<1>>
    /\ argOut = 0
    /\ result.dev = 0

\* C8: parallel_apply is given the first k replicas and the k shards scatter
\* returned: lists of equal length with replica i and shard i both on
\* device_ids[i]; each shard is processed once, by its own replica, and no
\* replica runs without a shard.
C8_ReplicasMatchShards ==
    \A c \in CallsOf("parallel_apply") :
        /\ calls[c].nmod = calls[c].nin
        /\ Len(replicas) = Len(inputs)
        /\ Len(inputs) <= Len(argIds)
        /\ pc # "error"
        /\ \A i \in 1 .. Len(replicas) :
              /\ replicas[i].id = i
              /\ replicas[i].dev = argIds[i]
              /\ inputs[i].dev = argIds[i]
        /\ \A i, j \in 1 .. Len(finished) : finished[i] = finished[j] => i = j
        /\ \A i \in 1 .. Len(finished) : finished[i] \in 1 .. Len(inputs)
        /\ \A i \in 1 .. Len(outputs) :
              outputs[i] # NoTensor =>
                 outputs[i] = [rows |-> Forward(module, inputs[i].rows), dev |-> argIds[i]]
        /\ Returned => Len(finished) = Len(inputs)

C8_Witness ==
    /\ pc = "dp_running"
    /\ Len(argIds) = 2
    /\ Len(inputs) = 1
    /\ Len(input.rows) = 1
    /\ finished = <<1>>

\* C9: replicate and scatter are given the caller's device_ids, same elements
\* in the same order; device_ids is never changed; with a non-empty list the
\* argument module itself is never invoked.
C9_DeviceListPassedThrough ==
    /\ device_ids = argIds
    /\ \A i \in CallsOf("replicate") \cup CallsOf("scatter") : calls[i].ids = argIds
    /\ argIds # <<>> => directCalls = 0
    /\ (argIds # <<>> /\ Returned) =>
          CallsOf("replicate") # {} /\ CallsOf("scatter") # {}

C9_Witness ==
    /\ Returned
    /\ Len(argIds) = 2
    /\ argIds[1] > argIds[2]
    /\ CallsOf("scatter") # {}
    /\ directCalls = 0
====
